---- MODULE Spec2Model ----
(***************************************************************************)
(* The fixed-step RK4 simulation engine of modelling_tools:                *)
(*   - Model.runModel            (src/src/modelling_tools/model.py)        *)
(*   - runModel                  (src/src/modelling_tools/runModel.py)     *)
(*                                                                         *)
(* Numbers are exact rationals <<numerator, denominator>> in lowest terms  *)
(* with a positive denominator: Python's float arithmetic is modelled by   *)
(* the real arithmetic it approximates; int() is truncation toward zero.   *)
(* Times handed to the engine (runTime, integInt, communInt) are whole     *)
(* numbers of one time unit.                                               *)
(*                                                                         *)
(* One call of runModel is modelled by its three consecutive parts: the    *)
(* set-up (fresh start or resume), one action per iteration of the outer   *)
(* integration loop (the four Runge-Kutta parts, the time increment and    *)
(* the sampling decision), and the export of the result table.  The        *)
(* engine is single threaded, so nothing interleaves with a call.          *)
(***************************************************************************)
EXTENDS Integers, Sequences, FiniteSets, TLC

----------------------------------------------------------------------------
(* Bounds of the model *)

\* largest runTime a call is given
MaxRunTime == 3
\* largest integInt of a script
MaxIntegInt == 2
\* largest communInt of a script
MaxCommunInt == 3
\* number of runModel calls one script makes
MaxCalls == 2

----------------------------------------------------------------------------
(* Exact arithmetic standing for Python floats *)

Abs(i) == IF i < 0 THEN -i ELSE i

RECURSIVE GCD(_, _)
GCD(a, b) == IF b = 0 THEN a ELSE GCD(b, a % b)

\* the rational n/d (d # 0) in lowest terms, denominator positive
Norm(n, d) ==
    LET g == GCD(Abs(n), Abs(d))
        s == IF d < 0 THEN -1 ELSE 1
    IN  <<(s * n) \div g, (s * d) \div g>>

R(i) == <<i, 1>>
\* sums and differences are formed over the least common denominator
RAdd(p, q) ==
    LET g == GCD(p[2], q[2])
    IN  Norm(p[1] * (q[2] \div g) + q[1] * (p[2] \div g), p[2] * (q[2] \div g))
RSub(p, q) == RAdd(p, <<-q[1], q[2]>>)
RMul(p, q) == Norm(p[1] * q[1], p[2] * q[2])
\* p / q, defined for q # 0 (the callers test for a zero divisor first)
RDiv(p, q) == Norm(p[1] * q[2], p[2] * q[1])
RLess(p, q) == p[1] * q[2] < q[1] * p[2]

\* Python int(x) of a float x: truncation toward zero
PyInt(p) == IF p[1] < 0 THEN -((-p[1]) \div p[2]) ELSE p[1] \div p[2]

\* range(k): the number of iterations of "for i in range(k)"
RangeLen(k) == IF k < 0 THEN 0 ELSE k

----------------------------------------------------------------------------
(* Exceptions *)

NoError == [type |-> "none", arg |-> ""]
KeyError(name) == [type |-> "KeyError", arg |-> name]
TypeError == [type |-> "TypeError", arg |-> "prev_output"]
ZeroDivisionError == [type |-> "ZeroDivisionError", arg |-> ""]

----------------------------------------------------------------------------
(* Tables (pandas DataFrame) and name-keyed mappings (dict) *)

\* the value None of Model.prev_output / of the argument prev_output
None == [df |-> FALSE, columns |-> <<>>, rows |-> <<>>]

\* pd.DataFrame(rows, columns = cols)
DataFrame(rows, cols) == [df |-> TRUE, columns |-> cols, rows |-> rows]

\* pd.concat([a, b], ignore_index = True) of two tables with the same columns
Concat(a, b) == [df |-> TRUE, columns |-> a.columns, rows |-> a.rows \o b.rows]

\* the positions of the columns of frame whose name is one of keys, in column order
\* (frame.columns.isin(keys))
IsinColumns(frame, keys) ==
    SelectSeq([i \in 1..Len(frame.columns) |-> i],
              LAMBDA i : \E k \in 1..Len(keys) : keys[k] = frame.columns[i])

\* frame.iloc[-1, frame.columns.isin(keys)].tolist()
LastRowList(frame, keys) ==
    LET idx == IsinColumns(frame, keys)
        last == frame.rows[Len(frame.rows)]
    IN  [j \in 1..Len(idx) |-> last[idx[j]]]

\* frame.iloc[-1, frame.columns.isin(keys)].to_dict()
LastRowDict(frame, keys) ==
    LET idx == IsinColumns(frame, keys)
        last == frame.rows[Len(frame.rows)]
    IN  [name \in {frame.columns[idx[j]] : j \in 1..Len(idx)} |->
            last[CHOOSE i \in 1..Len(frame.columns) : frame.columns[i] = name]]

\* position of a column in a table, 0 when the table has no such column
ColumnIndex(cols, name) ==
    IF \E i \in 1..Len(cols) : cols[i] = name
    THEN CHOOSE i \in 1..Len(cols) : cols[i] = name /\ \A j \in 1..(i - 1) : cols[j] # name
    ELSE 0

\* dict(zip(keys, list)): pairs by position, as long as the shorter of the two
ZipDict(keys, list) ==
    LET n == IF Len(keys) < Len(list) THEN Len(keys) ELSE Len(list)
    IN  [name \in {keys[i] : i \in 1..n} |->
            list[CHOOSE i \in 1..n : keys[i] = name /\ \A j \in (i + 1)..n : keys[j] # name]]

\* d.update(u)
Update(d, u) == u @@ d

\* list(d.values()) of a dict whose keys are, in insertion order, keys
Values(d, keys) == [i \in 1..Len(keys) |-> d[keys[i]]]

----------------------------------------------------------------------------
(* The caller's side: parameters, declarations and the model function *)

parameters == [a |-> R(1)]

\* keys of istate_vars, in insertion order
StateNames == <<"x", "y", "z">>

\* the initial-state mapping the Model is constructed with
InitialStateVars == [x |-> R(1), y |-> R(2), z |-> R(3)]

\* (outputs_list, differential_variables) pairs a Model is constructed with
Declarations ==
    { [outputs_list |-> <<"t", "x", "y", "z", "dzdt">>,
       differential_variables |-> <<"dxdt", "dydt", "dzdt">>],
      [outputs_list |-> <<"t", "y", "x", "z", "dzdt">>,
       differential_variables |-> <<"dxdt", "dydt", "dzdt">>],
      [outputs_list |-> <<"t", "x", "y", "z", "q">>,
       differential_variables |-> <<"dxdt", "dydt", "dzdt">>],
      [outputs_list |-> <<"t", "x", "y", "z", "dzdt">>,
       differential_variables |-> <<"dxdt", "dydt", "dqdt">>] }

\* The model function: a chain of three compartments, dx/dt = a, dy/dt = x,
\* dz/dt = y + t.  It reads its state by name and reports its state and time
\* arguments under the state-variable names and "t".
input_model(params, stateVars, time) ==
    IF "x" \notin DOMAIN stateVars THEN [err |-> KeyError("x"), values |-> <<>>]
    ELSE IF "y" \notin DOMAIN stateVars THEN [err |-> KeyError("y"), values |-> <<>>]
    ELSE IF "z" \notin DOMAIN stateVars THEN [err |-> KeyError("z"), values |-> <<>>]
    ELSE [err |-> NoError,
          values |-> [t |-> time, x |-> stateVars["x"], y |-> stateVars["y"],
                      z |-> stateVars["z"], dxdt |-> params.a, dydt |-> stateVars["x"],
                      dzdt |-> RAdd(stateVars["y"], time)]]

\* [values[name] for name in names]: the KeyError of the first name values lacks
PickError(names, values) ==
    LET bad == {i \in 1..Len(names) : names[i] \notin DOMAIN values}
    IN  IF bad = {} THEN NoError
        ELSE KeyError(names[CHOOSE i \in bad : \A j \in bad : i <= j])

Pick(names, values) == [i \in 1..Len(names) |-> values[names[i]]]

----------------------------------------------------------------------------
(* State *)

VARIABLES
    api,                    \* which entry point the script drives: "Model" or "function"
    integInt, communInt,    \* the integration and communication intervals of the script
    outputs_list, differential_variables,   \* the declarations the engine is given
    istate_vars,            \* Model.istate_vars (name -> value)
    initial_stateVars,      \* the list the script hands to the function runModel
    prev_output,            \* Model.prev_output / the table the script passes as prev_output
    differential_return, variable_returns,  \* results of the latest model evaluation
    pc,                     \* "idle", "loop" (inside a call), "returned", "raised"
    runTime, continue_run,  \* arguments of the current call (continue_run: Start = 1)
    lastIntervalNo, cintAsInt, intervalNo, t,
    stateVars_list, stateVars_dict, model_results, slopes, start,
    error,                  \* the exception the latest call raised
    evals,                  \* model function evaluations made by the current call
    calls,                  \* arguments of the evaluations of the latest integration step
    sampled,                \* whether the latest integration step appended a row
    entry,                  \* prev_output and istate_vars as they were when the call began
    history                 \* the calls made so far, with their outcome

vars == <<api, integInt, communInt, outputs_list, differential_variables, istate_vars,
          initial_stateVars, prev_output, differential_return, variable_returns, pc,
          runTime, continue_run, lastIntervalNo, cintAsInt, intervalNo, t,
          stateVars_list, stateVars_dict, model_results, slopes, start,
          error, evals, calls, sampled, entry, history>>

config == <<api, integInt, communInt, outputs_list, differential_variables, initial_stateVars>>

Init ==
    /\ api \in {"Model", "function"}
    /\ integInt \in 0..MaxIntegInt
    /\ communInt \in 0..MaxCommunInt
    /\ \E d \in Declarations :
          /\ outputs_list = d.outputs_list
          /\ differential_variables = d.differential_variables
    /\ istate_vars = InitialStateVars
    /\ initial_stateVars = Values(InitialStateVars, StateNames)
    /\ prev_output = None
    /\ differential_return = <<>>
    /\ variable_returns = <<>>
    /\ pc = "idle"
    /\ runTime = 0
    /\ continue_run = FALSE
    /\ lastIntervalNo = R(0)
    /\ cintAsInt = 0
    /\ intervalNo = 0
    /\ t = R(0)
    /\ stateVars_list = <<>>
    /\ stateVars_dict = <<>>
    /\ model_results = <<>>
    /\ slopes = <<>>
    /\ start = <<>>
    /\ error = NoError
    /\ evals = 0
    /\ calls = <<>>
    /\ sampled = FALSE
    /\ entry = [prev_output |-> None, istate_vars |-> InitialStateVars]
    /\ history = <<>>

----------------------------------------------------------------------------
(* One evaluation of the model function and the two list comprehensions after it *)

\* an evaluation that reads a name the model function did not return as 0.0
\* (values.get(name, 0.0)) instead of failing
EvaluateDefaulting(stateVars, time) ==
    LET r == input_model(parameters, stateVars, time)
        get(name) == IF name \in DOMAIN r.values THEN r.values[name] ELSE R(0)
    IN  IF r.err # NoError
        THEN [err |-> r.err, differential_return |-> <<>>, variable_returns |-> <<>>]
        ELSE [err |-> NoError,
              differential_return |->
                  [i \in 1..Len(differential_variables) |-> get(differential_variables[i])],
              variable_returns |-> [i \in 1..Len(outputs_list) |-> get(outputs_list[i])]]

\* values = input_model(...); differential_return = [...]; variable_returns = [...]
Evaluate(stateVars, time) ==
    LET r == input_model(parameters, stateVars, time)
    IN  IF r.err # NoError
        THEN [err |-> r.err, differential_return |-> <<>>, variable_returns |-> <<>>]
        ELSE IF PickError(differential_variables, r.values) # NoError
        THEN [err |-> PickError(differential_variables, r.values),
              differential_return |-> <<>>, variable_returns |-> <<>>]
        ELSE IF PickError(outputs_list, r.values) # NoError
        THEN [err |-> PickError(outputs_list, r.values),
              differential_return |-> <<>>, variable_returns |-> <<>>]
        ELSE [err |-> NoError,
              differential_return |-> Pick(differential_variables, r.values),
              variable_returns |-> Pick(outputs_list, r.values)]

----------------------------------------------------------------------------
(* The four parts of one Runge-Kutta step *)

\* the value stateVars_list[svno] gets in part n (n = 0..3; svno counts from 1 here)
NewStateVar(n, svno, st, sl, h) ==
    CASE n = 0 -> RAdd(st[svno], RDiv(RMul(h, sl[n + 1][svno]), R(2)))
      [] n = 1 -> RAdd(st[svno], RDiv(RMul(h, sl[n + 1][svno]), R(2)))
      [] n = 2 -> RAdd(st[svno], RMul(h, sl[n + 1][svno]))
      [] n = 3 -> RAdd(st[svno],
                       RMul(RDiv(h, R(6)),
                            RAdd(RAdd(sl[1][svno], RMul(R(2), sl[2][svno])),
                                 RAdd(RMul(R(2), sl[3][svno]), sl[4][svno]))))

\* the state a call's loop works on
Frame(list, dict, sl, st, dr, vr, cl, ev) ==
    [list |-> list, dict |-> dict, slopes |-> sl, start |-> st,
     differential_return |-> dr, variable_returns |-> vr,
     calls |-> cl, evals |-> ev, err |-> NoError]

\* parts n..3 of "for n in range(4)", at time time with step h
RECURSIVE RungeKutta(_, _, _, _)
RungeKutta(n, f, time, h) ==
    IF n = 4 THEN f
    ELSE
      LET e   == Evaluate(f.dict, time)
          cl  == Append(f.calls, [stateVars |-> f.dict, t |-> time])
      IN  IF e.err # NoError
          THEN [f EXCEPT !.err = e.err, !.calls = cl, !.evals = @ + 1]
          ELSE
            LET sl   == Append(f.slopes, e.differential_return)
                st   == IF n = 0 THEN f.start \o f.list ELSE f.start
                list == [svno \in 1..Len(f.list) |-> NewStateVar(n, svno, st, sl, h)]
                dict == Update(f.dict, ZipDict(StateNames, list))
            IN  RungeKutta(n + 1,
                           [list |-> list, dict |-> dict, slopes |-> sl, start |-> st,
                            differential_return |-> e.differential_return,
                            variable_returns |-> e.variable_returns,
                            calls |-> cl, evals |-> f.evals + 1, err |-> NoError],
                           time, h)

\* remainder = (intervalNo+1)/cintAsInt - int((intervalNo+1)/cintAsInt), cintAsInt # 0
Remainder(k, c) == RSub(RDiv(R(k), R(c)), R(PyInt(RDiv(R(k), R(c)))))

\* a sampling test that uses the number of the interval (intervalNo), not intervalNo+1
IsCommunicationOldInterval(k, c) == Remainder(k - 1, c) = R(0)

\* whether the step that ends interval k (k = intervalNo + 1) is communicated
IsCommunication(k, c) == Remainder(k, c) = R(0)

----------------------------------------------------------------------------
(* Set-up of a call: "Start New Simulation" / "Continue Simulation" *)

\* what the set-up leaves behind: the exception it raised, or the locals of the loop
SetUp(err, time, list, dict, dr, vr, results, ev) ==
    [err |-> err, t |-> time, list |-> list, dict |-> dict,
     differential_return |-> dr, variable_returns |-> vr,
     model_results |-> results, evals |-> ev]

Raised(err, ev) ==
    SetUp(err, R(0), <<>>, <<>>, differential_return, variable_returns, <<>>, ev)

\* a fresh start that evaluates the model at t = 0 but records no row for it
StartNewSimulationNoInitialRow ==
    LET e == Evaluate(istate_vars, R(0))
    IN  IF e.err # NoError THEN Raised(e.err, 1)
        ELSE SetUp(NoError, R(0), Values(istate_vars, StateNames), istate_vars,
                   e.differential_return, e.variable_returns, <<>>, 1)

\* Model.runModel, continue_run = False
StartNewSimulation ==
    LET e == Evaluate(istate_vars, R(0))
    IN  IF e.err # NoError THEN Raised(e.err, 1)
        ELSE SetUp(NoError, R(0), Values(istate_vars, StateNames), istate_vars,
                   e.differential_return, e.variable_returns, <<e.variable_returns>>, 1)

\* a resume that emits the last row of the previous table again
ContinueSimulationReemit ==
    IF ~prev_output.df THEN Raised(TypeError, 0)
    ELSE IF ColumnIndex(prev_output.columns, "t") = 0 THEN Raised(KeyError("t"), 0)
    ELSE SetUp(NoError,
               prev_output.rows[Len(prev_output.rows)][ColumnIndex(prev_output.columns, "t")],
               LastRowList(prev_output, StateNames),
               LastRowDict(prev_output, StateNames),
               differential_return, variable_returns,
               <<prev_output.rows[Len(prev_output.rows)]>>, 0)

\* a resume that silently starts a new simulation when there is no previous table
ContinueSimulationUnchecked ==
    IF ~prev_output.df THEN StartNewSimulation
    ELSE IF ColumnIndex(prev_output.columns, "t") = 0 THEN Raised(KeyError("t"), 0)
    ELSE SetUp(NoError,
               prev_output.rows[Len(prev_output.rows)][ColumnIndex(prev_output.columns, "t")],
               LastRowList(prev_output, StateNames),
               LastRowDict(prev_output, StateNames),
               differential_return, variable_returns, <<>>, 0)

\* Model.runModel, continue_run = True
ContinueSimulation ==
    IF ~prev_output.df THEN Raised(TypeError, 0)
    ELSE IF ColumnIndex(prev_output.columns, "t") = 0 THEN Raised(KeyError("t"), 0)
    ELSE SetUp(NoError,
               prev_output.rows[Len(prev_output.rows)][ColumnIndex(prev_output.columns, "t")],
               LastRowList(prev_output, StateNames),
               LastRowDict(prev_output, StateNames),
               differential_return, variable_returns, <<>>, 0)

\* runModel (runModel.py), Start = 0: the model function is given initial_stateVars
FnStartNewSimulation ==
    LET e == Evaluate(ZipDict(StateNames, initial_stateVars), R(0))
    IN  IF e.err # NoError THEN Raised(e.err, 1)
        ELSE SetUp(NoError, R(0), initial_stateVars, ZipDict(StateNames, initial_stateVars),
                   e.differential_return, e.variable_returns, <<e.variable_returns>>, 1)

\* runModel (runModel.py), Start = 1
FnContinueSimulation ==
    IF ~prev_output.df THEN Raised(TypeError, 0)
    ELSE IF ColumnIndex(prev_output.columns, "t") = 0 THEN Raised(KeyError("t"), 0)
    ELSE SetUp(NoError,
               prev_output.rows[Len(prev_output.rows)][ColumnIndex(prev_output.columns, "t")],
               initial_stateVars, ZipDict(StateNames, initial_stateVars),
               differential_return, variable_returns, <<>>, 0)

\* the whole set-up: the two divisions of "Setup Integration and Communication Loop",
\* then the branch on continue_run (s is the outcome of that branch)
Begin(rt, cont, s) ==
    /\ pc \in {"idle", "returned", "raised"}
    /\ Len(history) < MaxCalls
    /\ runTime' = rt
    /\ continue_run' = cont
    /\ entry' = [prev_output |-> prev_output, istate_vars |-> istate_vars]
    /\ intervalNo' = 0
    /\ slopes' = <<>>
    /\ start' = <<>>
    /\ calls' = <<>>
    /\ sampled' = FALSE
    /\ UNCHANGED <<config, istate_vars, prev_output>>
    /\ IF integInt = 0
       THEN /\ error' = ZeroDivisionError
            /\ pc' = "raised"
            /\ evals' = 0
            /\ UNCHANGED <<lastIntervalNo, cintAsInt, t, stateVars_list, stateVars_dict,
                           model_results, differential_return, variable_returns>>
       ELSE /\ lastIntervalNo' = RDiv(R(rt), R(integInt))
            /\ cintAsInt' = PyInt(RDiv(R(communInt), R(integInt)))
            /\ error' = s.err
            /\ pc' = IF s.err = NoError THEN "loop" ELSE "raised"
            /\ evals' = s.evals
            /\ t' = s.t
            /\ stateVars_list' = s.list
            /\ stateVars_dict' = s.dict
            /\ model_results' = s.model_results
            /\ differential_return' = s.differential_return
            /\ variable_returns' = s.variable_returns
    /\ history' = Append(history, [continue_run |-> cont, runTime |-> rt,
                                   outcome |-> IF pc' = "loop" THEN "running" ELSE "raised"])

\* Model.runModel(runTime, integInt, communInt, continue_run) up to the loop
RunModelStart(rt, cont) ==
    /\ api = "Model"
    /\ \E s \in {IF cont THEN ContinueSimulation ELSE StartNewSimulation} : Begin(rt, cont, s)

\* runModel(Start, runTime, integInt, communInt, ...) up to the loop
FnStart(rt, cont) ==
    /\ api = "function"
    /\ \E s \in {IF cont THEN FnContinueSimulation ELSE FnStartNewSimulation} :
          Begin(rt, cont, s)

----------------------------------------------------------------------------
(* One iteration of "for intervalNo in range(int(lastIntervalNo))" *)

\* a list that is left as it is at the end of an iteration
ClearOmitted(list) == list

\* slopes.clear() / start.clear(): the list after the call
Clear(list) == <<>>

\* a row that takes the outputs of the last evaluation but stamps the advanced time
SampledRowAtNewTime(f) ==
    [i \in 1..Len(f.variable_returns) |->
        IF outputs_list[i] = "t" THEN RAdd(t, R(integInt)) ELSE f.variable_returns[i]]

\* the row appended for a communicated step
SampledRow(f) == f.variable_returns

SetOutcome(o) == [history EXCEPT ![Len(history)].outcome = o]

\* aliased: stateVars_dict is the very object istate_vars (a fresh Model.runModel run)
Iterate(aliased) ==
    /\ pc = "loop"
    /\ intervalNo < RangeLen(PyInt(lastIntervalNo))
    /\ \E f \in {RungeKutta(0, Frame(stateVars_list, stateVars_dict, slopes, start,
                                     differential_return, variable_returns, <<>>, evals),
                            t, R(integInt))} :
           /\ stateVars_list' = f.list
           /\ stateVars_dict' = f.dict
           /\ istate_vars' = IF aliased THEN f.dict ELSE istate_vars
           /\ differential_return' = f.differential_return
           /\ variable_returns' = f.variable_returns
           /\ calls' = f.calls
           /\ evals' = f.evals
           /\ IF f.err # NoError
              THEN /\ error' = f.err
                   /\ pc' = "raised"
                   /\ history' = SetOutcome("raised")
                   /\ slopes' = f.slopes
                   /\ start' = f.start
                   /\ UNCHANGED <<t, model_results, intervalNo, sampled>>
              ELSE /\ t' = RAdd(t, R(integInt))
                   /\ IF cintAsInt = 0
                      THEN /\ error' = ZeroDivisionError
                           /\ pc' = "raised"
                           /\ history' = SetOutcome("raised")
                           /\ slopes' = f.slopes
                           /\ start' = f.start
                           /\ UNCHANGED <<model_results, intervalNo, sampled>>
                      ELSE /\ sampled' = IsCommunication(intervalNo + 1, cintAsInt)
                           /\ model_results' = IF sampled'
                                               THEN Append(model_results, SampledRow(f))
                                               ELSE model_results
                           /\ slopes' = Clear(f.slopes)
                           /\ start' = Clear(f.start)
                           /\ intervalNo' = intervalNo + 1
                           /\ UNCHANGED <<error, pc, history>>
    /\ UNCHANGED <<config, prev_output, runTime, continue_run, lastIntervalNo, cintAsInt, entry>>

RunModelStep ==
    /\ api = "Model"
    /\ Iterate(~continue_run)

FnStep ==
    /\ api = "function"
    /\ Iterate(FALSE)

----------------------------------------------------------------------------
(* "Export Model Results" *)

\* output_dataframe: the new rows, joined onto the previous table when continuing
OutputDataframe(cont, prev, results, cols) ==
    IF cont THEN Concat(prev, DataFrame(results, cols)) ELSE DataFrame(results, cols)

Finish ==
    /\ pc = "loop"
    /\ intervalNo >= RangeLen(PyInt(lastIntervalNo))
    /\ prev_output' = OutputDataframe(continue_run, prev_output, model_results, outputs_list)
    /\ pc' = "returned"
    /\ history' = SetOutcome("returned")
    /\ UNCHANGED <<config, istate_vars, differential_return, variable_returns,
                   runTime, continue_run, lastIntervalNo, cintAsInt, intervalNo, t,
                   stateVars_list, stateVars_dict, model_results, slopes, start,
                   error, evals, calls, sampled, entry>>

\* Model.runModel stores the table in self.prev_output
RunModelExport ==
    /\ api = "Model"
    /\ Finish

\* runModel returns the table; the script keeps it to pass it as prev_output
FnExport ==
    /\ api = "function"
    /\ Finish

----------------------------------------------------------------------------
Next ==
    \/ \E rt \in 0..MaxRunTime, cont \in BOOLEAN : RunModelStart(rt, cont)
    \/ RunModelStep
    \/ RunModelExport
    \/ \E rt \in 0..MaxRunTime, cont \in BOOLEAN : FnStart(rt, cont)
    \/ FnStep
    \/ FnExport

Spec == Init /\ [][Next]_vars

----------------------------------------------------------------------------
(* Vocabulary of the properties *)

\* the names the model function returns
ModelOutputNames == {"t", "x", "y", "z", "dxdt", "dydt", "dzdt"}

\* every declared name is one the model function returns
DeclarationsProducible ==
    /\ \A i \in 1..Len(differential_variables) : differential_variables[i] \in ModelOutputNames
    /\ \A i \in 1..Len(outputs_list) : outputs_list[i] \in ModelOutputNames

\* outputs_list names the state variables in the order istate_vars declares them
StateColumnsInOrder ==
    SelectSeq(outputs_list, LAMBDA name : \E i \in 1..Len(StateNames) : StateNames[i] = name)
        = StateNames

\* the declared names, derivative names first, that the model function does not return
MissingNames ==
    SelectSeq(differential_variables \o outputs_list, LAMBDA name : name \notin ModelOutputNames)

\* a call has been made and this is its current or final state
InCall == Len(history) >= 1

\* the script's intervals are a valid run configuration
ValidIntervals == integInt > 0 /\ communInt > 0 /\ communInt % integInt = 0

\* number of integration steps of a call with run time rt
StepsOf(rt) == rt \div integInt

\* value of the column called name in a row of a table with columns cols
Cell(row, cols, name) == row[ColumnIndex(cols, name)]

\* the whole loop of a fresh run as one function: iterations i+1..n from frame f at
\* time time, appending to results
RECURSIVE RunLoop(_, _, _, _, _)
RunLoop(i, n, f, time, results) ==
    IF i >= n THEN results
    ELSE LET g == RungeKutta(0, f, time, R(integInt))
         IN  RunLoop(i + 1, n,
                     [g EXCEPT !.slopes = Clear(@), !.start = Clear(@), !.calls = <<>>],
                     RAdd(time, R(integInt)),
                     IF IsCommunication(i + 1, cintAsInt)
                     THEN Append(results, SampledRow(g)) ELSE results)

\* the rows of one fresh Model.runModel run of n steps from the declared initial state
SinglePassRows(n) ==
    LET e == Evaluate(InitialStateVars, R(0))
    IN  RunLoop(0, n,
                Frame(Values(InitialStateVars, StateNames), InitialStateVars, <<>>, <<>>,
                      e.differential_return, e.variable_returns, <<>>, 1),
                R(0), <<e.variable_returns>>)

RECURSIVE TotalSteps(_)
TotalSteps(k) == IF k = 0 THEN 0 ELSE TotalSteps(k - 1) + StepsOf(history[k].runTime)

\* the script made one fresh run and then only continue_run = True runs, all returned
FreshThenContinued ==
    /\ InCall
    /\ pc = "returned"
    /\ ~history[1].continue_run
    /\ \A k \in 1..Len(history) :
          /\ history[k].outcome = "returned"
          /\ k > 1 => history[k].continue_run

----------------------------------------------------------------------------
(* C1 *)

\* C1: a fresh run of N1 steps followed by continue_run = True runs of N2 (...) steps
\* leaves in prev_output the rows of one fresh run of N1 + N2 (+ ...) steps.
C1_SplitEqualsSinglePass ==
    (/\ api = "Model"
     /\ FreshThenContinued
     /\ Len(history) >= 2
     /\ cintAsInt >= 1
     /\ DeclarationsProducible
     /\ StateColumnsInOrder)
    => prev_output.rows = SinglePassRows(TotalSteps(Len(history)))

----------------------------------------------------------------------------
(* C2 *)

\* C2: the row appended after a sampled step holds the model function's outputs at
\* the state reached at the end of the step and at the advanced time, so the k-th
\* row of a fresh run (k = 0, 1, ...) has time k * communInt.
C2_RowAtNewStateAndTime ==
    (/\ api = "Model"
     /\ pc = "loop"
     /\ sampled
     /\ DeclarationsProducible)
    => /\ model_results[Len(model_results)] = Evaluate(stateVars_dict, t).variable_returns
       /\ ~continue_run =>
             \A k \in 1..Len(model_results) :
                Cell(model_results[k], outputs_list, "t") = R((k - 1) * communInt)

----------------------------------------------------------------------------
(* C3 *)

\* an iteration of the integration loop of Model.runModel has completed
StepCompleted == api = "Model" /\ pc = "loop" /\ pc' = "loop" /\ intervalNo' = intervalNo + 1

\* C3: with c = int(communInt/integInt) >= 1, an integration step appends a row iff
\* the number of steps completed since the call began is a multiple of c; it then
\* appends exactly one row, and no other step changes the result.
C3_SamplingPolicy ==
    [][(StepCompleted /\ cintAsInt >= 1)
       => IF intervalNo' % cintAsInt = 0
          THEN /\ Len(model_results') = Len(model_results) + 1
               /\ SubSeq(model_results', 1, Len(model_results)) = model_results
          ELSE model_results' = model_results]_vars

\* three steps of a call with c = 2: the second appended a row, the third did not
C3_Witness ==
    /\ api = "Model"
    /\ pc = "loop"
    /\ cintAsInt = 2
    /\ intervalNo = 3
    /\ ~continue_run
    /\ Len(model_results) = 2

----------------------------------------------------------------------------
(* C4 *)

----------------------------------------------------------------------------
(* C5 *)

\* re-evaluating the model function at the state and time a row records gives the row
RowConsistent(row) ==
    LET recorded == [name \in {StateNames[i] : i \in 1..Len(StateNames)} |->
                        Cell(row, outputs_list, name)]
    IN  Evaluate(recorded, Cell(row, outputs_list, "t")).variable_returns = row

\* C5: every row of the table (the t = 0 row and every sampled row) is reproduced by
\* re-evaluating the model function at the state and time the row itself records.
C5_RowsSelfConsistent ==
    (api = "Model" /\ DeclarationsProducible)
    => /\ \A k \in 1..Len(model_results) : RowConsistent(model_results[k])
       /\ \A k \in 1..Len(prev_output.rows) : RowConsistent(prev_output.rows[k])

\* a table with the t = 0 row, a row sampled by the fresh run and one by a resumed run
C5_Witness ==
    /\ api = "Model"
    /\ DeclarationsProducible
    /\ FreshThenContinued
    /\ continue_run
    /\ Len(entry.prev_output.rows) >= 2
    /\ Len(prev_output.rows) > Len(entry.prev_output.rows)

----------------------------------------------------------------------------
(* C6 *)

\* C6: a continue_run = True call ends with prev_output equal to the previous table's
\* rows, unchanged and in order, followed by exactly the rows sampled in this call:
\* n + floor(steps/c) rows.
C6_ContinueAppends ==
    (/\ api = "Model"
     /\ InCall
     /\ pc = "returned"
     /\ continue_run)
    => /\ prev_output.df
       /\ prev_output.columns = entry.prev_output.columns
       /\ prev_output.rows = entry.prev_output.rows \o model_results
       /\ cintAsInt >= 1 =>
             Len(prev_output.rows) =
                 Len(entry.prev_output.rows) + StepsOf(runTime) \div cintAsInt

\* a resumed run of three steps added one row to a table of two rows
C6_Witness ==
    /\ api = "Model"
    /\ pc = "returned"
    /\ continue_run
    /\ cintAsInt = 2
    /\ StepsOf(runTime) = 3
    /\ Len(entry.prev_output.rows) = 2
    /\ Len(prev_output.rows) = 3

----------------------------------------------------------------------------
(* C7 *)

\* C7: after one fresh run and any number of continue_run = True runs, each with a
\* positive runTime and valid intervals, the 't' column of prev_output is strictly
\* increasing.
C7_TimeStrictlyIncreasing ==
    (/\ api = "Model"
     /\ FreshThenContinued
     /\ ValidIntervals
     /\ DeclarationsProducible
     /\ \A k \in 1..Len(history) : history[k].runTime > 0)
    => \A i \in 1..(Len(prev_output.rows) - 1) :
          RLess(Cell(prev_output.rows[i], prev_output.columns, "t"),
                Cell(prev_output.rows[i + 1], prev_output.columns, "t"))

----------------------------------------------------------------------------
(* C8 *)

\* C8: a call with an invalid run configuration (runTime, integInt or communInt not
\* strictly positive, or communInt not a multiple of integInt) fails before the model
\* function is evaluated and before any step, and leaves prev_output and the state
\* variables as they were.
C8_InvalidConfigurationRejected ==
    (/\ api = "Model"
     /\ InCall
     /\ DeclarationsProducible
     /\ (~ValidIntervals \/ runTime <= 0))
    => /\ pc = "raised"
       /\ evals = 0
       /\ intervalNo = 0
       /\ prev_output = entry.prev_output
       /\ istate_vars = entry.istate_vars

----------------------------------------------------------------------------
(* C9 *)

\* C9: a resume requested while prev_output is not a table raises (a TypeError, once
\* the interval ratio has been computed) before the model function is called, and
\* leaves prev_output and the initial state variables unchanged.
C9_ResumeWithoutTableRaises ==
    (/\ InCall
     /\ continue_run
     /\ ~entry.prev_output.df)
    => /\ pc = "raised"
       /\ integInt # 0 => error = TypeError
       /\ evals = 0
       /\ intervalNo = 0
       /\ calls = <<>>
       /\ prev_output = entry.prev_output
       /\ istate_vars = entry.istate_vars
       /\ initial_stateVars = Values(InitialStateVars, StateNames)

\* runModel(Start = 1, ...) without a previous table has raised its TypeError
C9_Witness ==
    /\ api = "function"
    /\ InCall
    /\ continue_run
    /\ ~prev_output.df
    /\ pc = "raised"
    /\ error = TypeError

----------------------------------------------------------------------------
(* C10 *)

\* C10: when differential_variables or outputs_list holds a name the model function
\* does not return, the call fails at its first model evaluation (a fresh run: the
\* t = 0 evaluation, before any step) with a KeyError naming the missing name, and
\* stores no table.
C10_MissingNameRaises ==
    (/\ api = "Model"
     /\ InCall
     /\ ~DeclarationsProducible)
    => /\ (~continue_run /\ integInt # 0) => evals = 1
       /\ evals >= 1 =>
             /\ pc = "raised"
             /\ error = KeyError(MissingNames[1])
             /\ evals = 1
             /\ intervalNo = 0
             /\ calls = <<>>
       /\ prev_output = entry.prev_output
       /\ ~prev_output.df

\* a fresh run declared with the output name "q" has raised KeyError('q')
C10_Witness ==
    /\ api = "Model"
    /\ ~continue_run
    /\ pc = "raised"
    /\ error = KeyError("q")
    /\ evals = 1

----------------------------------------------------------------------------
(* C11 *)

\* the state a table's last row records, read by name, in the order of istate_vars
RecordedState(frame) ==
    [i \in 1..Len(StateNames) |->
        Cell(frame.rows[Len(frame.rows)], frame.columns, StateNames[i])]

\* the time a table's last row records
RecordedTime(frame) == Cell(frame.rows[Len(frame.rows)], frame.columns, "t")

\* the set-up of a call has completed and no integration step has been made yet
AtLoopEntry == pc = "loop" /\ intervalNo = 0 /\ calls = <<>>

\* C11: runModel (runModel.py) called with Start = 1 enters its loop at the last 't'
\* of prev_output and at the state prev_output's last row records, whatever the
\* initial_stateVars argument is.
C11_FnResumesFromLastRow ==
    (/\ api = "function"
     /\ continue_run
     /\ AtLoopEntry
     /\ DeclarationsProducible)
    => /\ t = RecordedTime(prev_output)
       /\ stateVars_list = RecordedState(prev_output)

----------------------------------------------------------------------------
(* C12 *)

\* the derivatives the k-th evaluation of the latest step returned, in the order of
\* differential_variables
SlopesOf(k) == Evaluate(calls[k].stateVars, calls[k].t).differential_return

\* the latest integration step of the current call ran its four parts
StepDone == pc = "loop" /\ Len(calls) = 4

\* the value the state variable StateNames[i] had, by name, when the latest step began
BaselineByName(i) == calls[1].stateVars[StateNames[i]]

\* the trial state part n (1..3) of classic RK4 gives StateNames[i], from its own
\* baseline and the derivative declared for it
TrialByName(n, i) ==
    RAdd(BaselineByName(i),
         RMul(IF n = 3 THEN R(integInt) ELSE RDiv(R(integInt), R(2)), SlopesOf(n)[i]))

\* the new state of StateNames[i] from its own baseline and its own four slopes
NewStateByName(i) ==
    RAdd(BaselineByName(i),
         RMul(RDiv(R(integInt), R(6)),
              RAdd(RAdd(SlopesOf(1)[i], RMul(R(2), SlopesOf(2)[i])),
                   RAdd(RMul(R(2), SlopesOf(3)[i]), SlopesOf(4)[i]))))

\* C12: Model.runModel pairs state variables with values by name: a continue_run =
\* True call starts each state variable from the last-row column of its own name,
\* and every RK4 part advances each state variable from its own value with the
\* derivative declared for it, whatever the order of the names in outputs_list.
C12_PairedByName ==
    (api = "Model" /\ DeclarationsProducible)
    => /\ (continue_run /\ AtLoopEntry) =>
             /\ stateVars_list = RecordedState(prev_output)
             /\ \A i \in 1..Len(StateNames) :
                   stateVars_dict[StateNames[i]] = RecordedState(prev_output)[i]
       /\ StepDone =>
             \A i \in 1..Len(StateNames) :
                /\ \A n \in 1..3 : calls[n + 1].stateVars[StateNames[i]] = TrialByName(n, i)
                /\ stateVars_dict[StateNames[i]] = NewStateByName(i)

----------------------------------------------------------------------------
(* C13 *)

\* the time at which the latest completed step began (t has been advanced since)
StepStartTime == RSub(t, R(integInt))

\* C13: in each integration step of Model.runModel and of runModel, starting at time
\* t with step h, the four evaluations of the model function are given the times
\* t, t + h/2, t + h/2 and t + h, in that order.
C13_StageTimes ==
    StepDone
    => /\ calls[1].t = StepStartTime
       /\ calls[2].t = RAdd(StepStartTime, RDiv(R(integInt), R(2)))
       /\ calls[3].t = RAdd(StepStartTime, RDiv(R(integInt), R(2)))
       /\ calls[4].t = RAdd(StepStartTime, R(integInt))

----------------------------------------------------------------------------
(* C14 *)

\* the derivatives the k-th evaluation of the step being taken returns
SlopesOfStep(k) == Evaluate(calls'[k].stateVars, calls'[k].t).differential_return

\* s0 + c * k for the svno-th state variable, s0 being the engine's state vector
\* (stateVars_list) as the step begins
FromBaseline(svno, c, k) == RAdd(stateVars_list[svno], RMul(c, k))

\* C14: every integration step of Model.runModel builds its three trial states and
\* its new state from one baseline s0, the state the engine held when the step began
\* (the end of the previous step, or the start state): s0 + h/2*k1, s0 + h/2*k2,
\* s0 + h*k3 and s0 + h/6*(k1 + 2*k2 + 2*k3 + k4), k1..k4 being the slopes of this
\* step's own four evaluations; the step leaves no baseline and no slopes behind.
C14_SameBaseline ==
    [][StepCompleted
       => /\ slopes = <<>> /\ start = <<>>
          /\ slopes' = <<>> /\ start' = <<>>
          /\ Len(calls') = 4
          /\ \A svno \in 1..Len(StateNames) :
                /\ calls'[2].stateVars[StateNames[svno]] =
                      FromBaseline(svno, RDiv(R(integInt), R(2)), SlopesOfStep(1)[svno])
                /\ calls'[3].stateVars[StateNames[svno]] =
                      FromBaseline(svno, RDiv(R(integInt), R(2)), SlopesOfStep(2)[svno])
                /\ calls'[4].stateVars[StateNames[svno]] =
                      FromBaseline(svno, R(integInt), SlopesOfStep(3)[svno])
                /\ stateVars_list'[svno] =
                      FromBaseline(svno, RDiv(R(integInt), R(6)),
                                   RAdd(RAdd(SlopesOfStep(1)[svno],
                                             RMul(R(2), SlopesOfStep(2)[svno])),
                                        RAdd(RMul(R(2), SlopesOfStep(3)[svno]),
                                             SlopesOfStep(4)[svno])))
                /\ stateVars_dict'[StateNames[svno]] = stateVars_list'[svno]]_vars

\* the third step of a call has completed: two earlier steps could have left a
\* baseline and slopes behind
C14_Witness ==
    /\ api = "Model"
    /\ StepDone
    /\ intervalNo = 3
    /\ slopes = <<>>
    /\ start = <<>>

----------------------------------------------------------------------------
(* C15 *)

\* the script has made two fresh runs with the same runTime and both have returned
TwoEqualFreshRuns ==
    /\ Len(history) = 2
    /\ pc = "returned"
    /\ \A k \in 1..2 : ~history[k].continue_run /\ history[k].outcome = "returned"
    /\ history[1].runTime = history[2].runTime

\* C15: a fresh Model.runModel run leaves istate_vars as it was when the call began,
\* and the second of two fresh runs with the same configuration stores the table the
\* first one stored.
C15_FreshRunKeepsInitialState ==
    (api = "Model" /\ ValidIntervals /\ DeclarationsProducible)
    => /\ (InCall /\ ~continue_run) => istate_vars = entry.istate_vars
       /\ TwoEqualFreshRuns => prev_output = entry.prev_output

====
